---- MODULE Spec2Model ----
(***************************************************************************)
(* A model of the color-manager client binding: the enumeration codecs,    *)
(* the method-call and property-read operations of ColorManager, Device,   *)
(* Profile and Sensor, and the signal (notification) operations.           *)
(*                                                                         *)
(* Text that the code inspects character by character (enumeration wire    *)
(* strings, Rust variant names, path text a caller passes to a             *)
(* constructor) is a sequence of one-character strings, so that "Camera"   *)
(* and "camera" are different values.  Object paths, member names and      *)
(* interface names are opaque and are TLA+ strings.                        *)
(*                                                                         *)
(* Specifications: SpecCodec (the enumeration codecs), Spec (calls and     *)
(* reads against a peer that may answer anything), SpecSignal              *)
(* (notifications), SpecRemote (calls and reads against a peer that keeps  *)
(* objects and property values), SpecBuild (proxies constructed from a     *)
(* caller's paths), SpecShared (two tasks on one connection).              *)
(***************************************************************************)
EXTENDS Integers, Sequences, FiniteSets, TLC

VARIABLES
    \* enumeration codec harness
    cty,        \* the enumeration type under test
    cin,        \* the variant that was encoded, or NoVariant
    cwire,      \* the value on the wire
    cout,       \* the decoder's outcome
    cpc,        \* "variant" -> "wire" -> "decoded", or "default" -> "defaulted"
    \* one caller task invoking operations of the binding
    pc,         \* "idle", "await" (reply pending), "waiting" (on a stream), "done"
    call,       \* the invocation in progress: [op, proxy, args]
    sent,       \* the messages sent to the peer by the invocation in progress
    reply,      \* the peer's reply to the invocation, or NoReply
    result,     \* what the operation returned to the caller
    \* signals
    emitted,    \* every signal the peer emitted so far, in order
    stream,     \* the SignalStream of the waiting operation, or NoStream
    resolvedBy, \* index in emitted of the signal the operation consumed, or 0
    subscribedAt, \* how many signals had been emitted when the stream was made
    \* a caller constructing proxies from paths of its own
    built,      \* the construction: [type, paths, result], or NoBuilt
    \* the peer as a keeper of objects and of their property values
    peer,       \* [objects: the paths that exist, deleted: the paths removed by
                \*  DeleteDevice / DeleteProfile, generation: of the property values]
    cache,      \* the property values the proxies keep locally
    issued,     \* what the peer's state was when the invocation was issued
    \* a second task of the same program, sharing the connection
    waiter      \* its pending notification: [pc, call, stream]

codecVars == <<cty, cin, cwire, cout, cpc>>
taskVars == <<pc, call, sent, reply, result>>
signalVars == <<emitted, stream, resolvedBy, subscribedAt>>
remoteVars == <<peer, cache, issued>>
harnessVars == <<built, peer, cache, issued, waiter>>
vars == <<cty, cin, cwire, cout, cpc, pc, call, sent, reply, result,
          emitted, stream, resolvedBy, subscribedAt,
          built, peer, cache, issued, waiter>>

-----------------------------------------------------------------------------
(* Bounds *)

\* longest array of object paths in a peer reply
MaxPaths == 2

\* most signals the peer emits in one run
MaxEvents == 2

-----------------------------------------------------------------------------
(* Text *)

Upper == <<"A","B","C","D","E","F","G","H","I","J","K","L","M",
           "N","O","P","Q","R","S","T","U","V","W","X","Y","Z">>
Lower == <<"a","b","c","d","e","f","g","h","i","j","k","l","m",
           "n","o","p","q","r","s","t","u","v","w","x","y","z">>

\* char::to_ascii_lowercase
ToAsciiLowercaseChar(c) ==
    IF \E i \in 1..Len(Upper) : Upper[i] = c
    THEN Lower[CHOOSE i \in 1..Len(Upper) : Upper[i] = c]
    ELSE c

\* str::to_ascii_lowercase, which #[serde(rename_all = "lowercase")] applies
\* to a variant's name
RenameAllLowercase(name) == [i \in 1..Len(name) |-> ToAsciiLowercaseChar(name[i])]

\* Rust variant names
Normal == <<"N","o","r","m","a","l">>
Temp == <<"T","e","m","p">>
Disk == <<"D","i","s","k">>
Scanner == <<"S","c","a","n","n","e","r">>
Display == <<"D","i","s","p","l","a","y">>
Camera == <<"C","a","m","e","r","a">>
Printer == <<"P","r","i","n","t","e","r">>
Webcam == <<"W","e","b","c","a","m">>
Soft == <<"S","o","f","t">>
Hard == <<"H","a","r","d">>
Virtual == <<"V","i","r","t","u","a","l">>
Physical == <<"P","h","y","s","i","c","a","l">>
Unknown == <<"U","n","k","n","o","w","n">>
Ambient == <<"A","m","b","i","e","n","t">>

\* string literals of the decoders' match arms
lit_temp == <<"t","e","m","p">>
lit_disk == <<"d","i","s","k">>
lit_scanner == <<"s","c","a","n","n","e","r">>
lit_Camera == <<"C","a","m","e","r","a">>
lit_virtual == <<"v","i","r","t","u","a","l">>
lit_physical == <<"p","h","y","s","i","c","a","l">>
lit_ambient == <<"a","m","b","i","e","n","t">>
lit_printer == <<"p","r","i","n","t","e","r">>

-----------------------------------------------------------------------------
(* Enumerations *)

Scope == {Normal, Temp, Disk}
Kind == {Scanner, Display, Camera, Printer, Webcam}
Relation == {Soft, Hard}
Mode == {Virtual, Physical, Unknown}
SensorMode == {Ambient, Printer, Unknown}

EnumTypes == {"Scope", "Kind", "Relation", "Mode", "SensorMode"}

Variants(ty) ==
    CASE ty = "Scope" -> Scope
      [] ty = "Kind" -> Kind
      [] ty = "Relation" -> Relation
      [] ty = "Mode" -> Mode
      [] ty = "SensorMode" -> SensorMode

\* a default of Mode that names a variant other than the declared one
ModeDefaultVirtual == Virtual

ScopeDefault == Normal
RelationDefault == Hard
ModeDefault == Unknown

\* <T as Default>::default() for the enumerations that implement Default
DefaultTypes == {"Scope", "Relation", "Mode"}
Default(ty) ==
    CASE ty = "Scope" -> ScopeDefault
      [] ty = "Relation" -> RelationDefault
      [] ty = "Mode" -> ModeDefault

\* A value on the wire: its D-Bus signature and its content.  The content is
\* always a sequence of strings: the characters of a string, the one path of
\* an object path, the paths of an array of object paths.
Value(sig, val) == [sig |-> sig, val |-> val]
Str(chars) == Value("s", chars)

\* derive(Serialize) with zvariant signature "s" and rename_all = "lowercase"
Serialize(variant) == Str(RenameAllLowercase(variant))

\* Outcomes of decoding
Ok(v) == [tag |-> "Ok", val |-> v]
Err(e) == [tag |-> "Err", val |-> <<e>>]
\* value.downcast_ref::<Str>().unwrap() on a value that is no string
Panic == [tag |-> "Panic", val |-> <<>>]

\* impl From<OwnedValue> for Scope
ScopeFrom(value) ==
    IF value.sig # "s" THEN Panic
    ELSE IF value.val = lit_temp THEN Ok(Temp)
    ELSE IF value.val = lit_disk THEN Ok(Disk)
    ELSE Ok(ScopeDefault)

\* impl From<OwnedValue> for Kind
KindFrom(value) ==
    IF value.sig # "s" THEN Panic
    ELSE IF value.val = lit_scanner THEN Ok(Scanner)
    ELSE IF value.val = lit_Camera THEN Ok(Camera)
    ELSE Ok(Display)

\* impl From<OwnedValue> for device::Mode
ModeFrom(value) ==
    IF value.sig # "s" THEN Panic
    ELSE IF value.val = lit_virtual THEN Ok(Virtual)
    ELSE IF value.val = lit_physical THEN Ok(Physical)
    ELSE Ok(ModeDefault)

\* impl From<OwnedValue> for sensor::Mode
SensorModeFrom(value) ==
    IF value.sig # "s" THEN Panic
    ELSE IF value.val = lit_ambient THEN Ok(Ambient)
    ELSE IF value.val = lit_printer THEN Ok(Printer)
    ELSE Ok(Unknown)

\* derive(Deserialize) on Relation: the variant whose renamed name is the
\* string, and an error for any other string or any other signature
RelationDeserialize(value) ==
    IF value.sig # "s" THEN Err("SignatureMismatch")
    ELSE IF \E v \in Relation : RenameAllLowercase(v) = value.val
         THEN Ok(CHOOSE v \in Relation : RenameAllLowercase(v) = value.val)
         ELSE Err("UnknownVariant")

Decode(ty, value) ==
    CASE ty = "Scope" -> ScopeFrom(value)
      [] ty = "Kind" -> KindFrom(value)
      [] ty = "Relation" -> RelationDeserialize(value)
      [] ty = "Mode" -> ModeFrom(value)
      [] ty = "SensorMode" -> SensorModeFrom(value)

-----------------------------------------------------------------------------
(* Proxies *)

Destination == "org.freedesktop.ColorManager"
ManagerPath == "/org/freedesktop/ColorManager"
PropertiesInterface == "org.freedesktop.DBus.Properties"

\* the interface each wrapper's constructor gives its zbus::Proxy
Interface(type) ==
    CASE type = "ColorManager" -> "org.freedesktop.ColorManager"
      [] type = "Device" -> "org.freedesktop.ColorManager.Device"
      [] type = "Profile" -> "org.freedesktop.ColorManager.Profile"
      [] type = "Sensor" -> "org.freedesktop.ColorManager.Sensor"

\* object paths the peer hands out
DevicePaths == {"/org/freedesktop/ColorManager/devices/d1",
                "/org/freedesktop/ColorManager/devices/d2"}
ProfilePaths == {"/org/freedesktop/ColorManager/profiles/p1"}
SensorPaths == {"/org/freedesktop/ColorManager/sensors/s1"}
Paths == DevicePaths \cup ProfilePaths \cup SensorPaths

\* a zbus::Proxy built with cache_properties(CacheProperties::No): it holds
\* the destination, the path and the interface and nothing else
Proxy(type, path) ==
    [destination |-> Destination, path |-> path, interface |-> Interface(type)]

\* ColorManager::from_connection
from_connection == Proxy("ColorManager", ManagerPath)

\* what a caller passes for object_path: P, P: TryInto<ObjectPath>: an
\* OwnedObjectPath the peer sent, or text of the caller's own
Owned(path) == [form |-> "OwnedObjectPath", text |-> <<path>>]
Text(chars) == [form |-> "str", text |-> chars]

Digits == <<"0","1","2","3","4","5","6","7","8","9">>

\* an element of an object path is made of [A-Z][a-z][0-9]_
IsElementChar(c) ==
    \/ \E i \in 1..Len(Upper) : Upper[i] = c \/ Lower[i] = c
    \/ \E i \in 1..Len(Digits) : Digits[i] = c
    \/ c = "_"

\* the syntax of an object path: "/" alone, or one or more non-empty
\* elements each preceded by "/"
IsObjectPath(chars) ==
    /\ Len(chars) >= 1
    /\ chars[1] = "/"
    /\ Len(chars) > 1 => chars[Len(chars)] # "/"
    /\ \A i \in 1..Len(chars) : chars[i] = "/" \/ IsElementChar(chars[i])
    /\ \A i \in 1..(Len(chars) - 1) : ~(chars[i] = "/" /\ chars[i + 1] = "/")

\* the text as one opaque path
RECURSIVE Join(_)
Join(chars) == IF chars = <<>> THEN "" ELSE Head(chars) \o Join(Tail(chars))

\* a conversion that takes any text for a path
TryIntoObjectPathUnchecked(p) ==
    IF p.form = "OwnedObjectPath" THEN Ok(p.text[1]) ELSE Ok(Join(p.text))

\* object_path.try_into() inside ProxyBuilder::path(object_path)?: an
\* OwnedObjectPath is a path already, text is checked
TryIntoObjectPath(p) ==
    IF p.form = "OwnedObjectPath" THEN Ok(p.text[1])
    ELSE IF IsObjectPath(p.text) THEN Ok(Join(p.text))
    ELSE Err("InvalidObjectPath")

\* Device::new, Profile::new, Sensor::new: path(object_path)? returns the
\* conversion's error before anything is built; build() sends nothing when
\* properties are not cached
New(type, object_path) ==
    LET path == TryIntoObjectPath(object_path)
    IN IF path.tag # "Ok" THEN path ELSE Ok(Proxy(type, path.val))

\* Device::from_paths, Profile::from_paths, Sensor::from_paths: one proxy per
\* path, pushed in iteration order; the first failing constructor's error is
\* returned in place of the vector
RECURSIVE from_paths_loop(_, _, _)
from_paths_loop(type, paths, items) ==
    IF paths = <<>> THEN Ok(items)
    ELSE LET made == New(type, Head(paths))
         IN IF made.tag # "Ok" THEN made
            ELSE from_paths_loop(type, Tail(paths), Append(items, made.val))

\* a loop that leaves out the paths no proxy can be built from
from_paths_skipping(type, paths) ==
    LET good == SelectSeq(paths, LAMBDA p : New(type, p).tag = "Ok")
    IN Ok([i \in 1..Len(good) |-> New(type, good[i]).val])

\* a loop that takes the paths from the back of the vector
from_paths_popping(type, paths) ==
    from_paths_loop(type, [i \in 1..Len(paths) |-> paths[Len(paths) + 1 - i]], <<>>)

from_paths(type, paths) == from_paths_loop(type, paths, <<>>)

\* a serialization that sends the interface along with the path
SerializeProxyWithInterface(proxy) == Value("(os)", <<proxy.path, proxy.interface>>)

\* impl Serialize for Device / Profile / Sensor: the proxy's path and
\* nothing else
SerializeProxy(proxy) == Value("o", <<proxy.path>>)

\* the proxies a caller holds and invokes operations on
Proxies(type) ==
    CASE type = "ColorManager" -> {from_connection}
      [] type = "Device" -> {Proxy("Device", p) : p \in DevicePaths}
      [] type = "Profile" -> {Proxy("Profile", p) : p \in ProfilePaths}
      [] type = "Sensor" -> {Proxy("Sensor", p) : p \in SensorPaths}

-----------------------------------------------------------------------------
(* The operations.  For each public async method: the wrapper it belongs  *)
(* to, its name, its #[doc(alias)], whether it calls a method, reads a    *)
(* property or waits for a signal, the member name its body passes to     *)
(* call_method / get_property / receive_signal, the arguments it puts in  *)
(* the call's body, and what it makes of the reply.                       *)

ColorManager_devices ==
    [type |-> "ColorManager", name |-> "devices", alias |-> "GetDevices", style |-> "method",
     member |-> "GetDevices", args |-> <<>>, ret |-> "Devices"]
ColorManager_devices_by_kind ==
    [type |-> "ColorManager", name |-> "devices_by_kind", alias |-> "GetDevicesByKind", style |-> "method",
     member |-> "GetDevicesByKind", args |-> <<"str">>, ret |-> "Devices"]
ColorManager_find_device_by_id ==
    [type |-> "ColorManager", name |-> "find_device_by_id", alias |-> "FindDeviceById", style |-> "method",
     member |-> "FindDeviceById", args |-> <<"str">>, ret |-> "Device"]
ColorManager_find_sensor_by_id ==
    [type |-> "ColorManager", name |-> "find_sensor_by_id", alias |-> "FindSensorById", style |-> "method",
     member |-> "FindSensorById", args |-> <<"str">>, ret |-> "Sensor"]
ColorManager_find_device_by_property ==
    [type |-> "ColorManager", name |-> "find_device_by_property", alias |-> "FindDeviceByProperty", style |-> "method",
     member |-> "FindDeviceByProperty", args |-> <<"str", "str">>, ret |-> "Device"]
ColorManager_find_profile_by_id ==
    [type |-> "ColorManager", name |-> "find_profile_by_id", alias |-> "FindProfileById", style |-> "method",
     member |-> "FindDeviceByProperty", args |-> <<"str">>, ret |-> "Profile"]
ColorManager_find_profile_by_property ==
    [type |-> "ColorManager", name |-> "find_profile_by_property", alias |-> "FindProfileByProperty", style |-> "method",
     member |-> "FindProfileByProperty", args |-> <<"str", "str">>, ret |-> "Profile"]
ColorManager_find_profile_by_filename ==
    [type |-> "ColorManager", name |-> "find_profile_by_filename", alias |-> "FindProfileByFilename", style |-> "method",
     member |-> "FindProfileByFilename", args |-> <<"str">>, ret |-> "Profile"]
ColorManager_standard_space ==
    [type |-> "ColorManager", name |-> "standard_space", alias |-> "GetStandardSpace", style |-> "method",
     member |-> "GetStandardSpace", args |-> <<"str">>, ret |-> "Profile"]
ColorManager_sensors ==
    [type |-> "ColorManager", name |-> "sensors", alias |-> "GetSensors", style |-> "method",
     member |-> "GetSensors", args |-> <<>>, ret |-> "Sensors"]
ColorManager_profiles_by_kind ==
    [type |-> "ColorManager", name |-> "profiles_by_kind", alias |-> "GetProfilesByKind", style |-> "method",
     member |-> "GetProfilesByKind", args |-> <<"str">>, ret |-> "Profiles"]
ColorManager_create_profile_with_fd ==
    [type |-> "ColorManager", name |-> "create_profile_with_fd", alias |-> "CreateProfileWithFd", style |-> "method",
     member |-> "CreateProfileWithFd", args |-> <<"str", "str", "raw_fd", "dict">>, ret |-> "Profile"]
ColorManager_create_profile ==
    [type |-> "ColorManager", name |-> "create_profile", alias |-> "CreateProfile", style |-> "method",
     member |-> "CreateProfile", args |-> <<"str", "dict">>, ret |-> "Profile"]
ColorManager_create_device ==
    [type |-> "ColorManager", name |-> "create_device", alias |-> "CreateDevice", style |-> "method",
     member |-> "CreateDevice", args |-> <<"str", "dict">>, ret |-> "Device"]
ColorManager_delete_device ==
    [type |-> "ColorManager", name |-> "delete_device", alias |-> "DeleteDevice", style |-> "method",
     member |-> "DeleteDevice", args |-> <<"Device">>, ret |-> "unit"]
ColorManager_delete_profile ==
    [type |-> "ColorManager", name |-> "delete_profile", alias |-> "DeleteProfile", style |-> "method",
     member |-> "DeleteProfile", args |-> <<"Profile">>, ret |-> "unit"]
ColorManager_changed ==
    [type |-> "ColorManager", name |-> "changed", alias |-> "Changed", style |-> "signal",
     member |-> "Changed", args |-> <<>>, ret |-> "unit"]
ColorManager_device_added ==
    [type |-> "ColorManager", name |-> "device_added", alias |-> "DeviceAdded", style |-> "signal",
     member |-> "DeviceAdded", args |-> <<>>, ret |-> "Device"]
ColorManager_device_changed ==
    [type |-> "ColorManager", name |-> "device_changed", alias |-> "DeviceChanged", style |-> "signal",
     member |-> "DeviceChanged", args |-> <<>>, ret |-> "Device"]
ColorManager_profile_added ==
    [type |-> "ColorManager", name |-> "profile_added", alias |-> "ProfileAdded", style |-> "signal",
     member |-> "ProfileAdded", args |-> <<>>, ret |-> "Profile"]
ColorManager_profile_removed ==
    [type |-> "ColorManager", name |-> "profile_removed", alias |-> "ProfileRemoved", style |-> "signal",
     member |-> "ProfileRemoved", args |-> <<>>, ret |-> "Profile"]
ColorManager_sensor_added ==
    [type |-> "ColorManager", name |-> "sensor_added", alias |-> "SensorAdded", style |-> "signal",
     member |-> "SensorAdded", args |-> <<>>, ret |-> "Sensor"]
ColorManager_sensor_removed ==
    [type |-> "ColorManager", name |-> "sensor_removed", alias |-> "SensorRemoved", style |-> "signal",
     member |-> "SensorRemoved", args |-> <<>>, ret |-> "Sensor"]
ColorManager_profile_changed ==
    [type |-> "ColorManager", name |-> "profile_changed", alias |-> "ProfileChanged", style |-> "signal",
     member |-> "ProfileChanged", args |-> <<>>, ret |-> "Profile"]
Device_set_property ==
    [type |-> "Device", name |-> "set_property", alias |-> "SetProperty", style |-> "method",
     member |-> "SetProperty", args |-> <<"str", "str">>, ret |-> "unit"]
Device_add_profile ==
    [type |-> "Device", name |-> "add_profile", alias |-> "AddProfile", style |-> "method",
     member |-> "AddProfile", args |-> <<"Relation", "Profile">>, ret |-> "unit"]
Device_remove_profile ==
    [type |-> "Device", name |-> "remove_profile", alias |-> "RemoveProfile", style |-> "method",
     member |-> "RemoveProfile", args |-> <<"Profile">>, ret |-> "unit"]
Device_make_profile_default ==
    [type |-> "Device", name |-> "make_profile_default", alias |-> "MakeProfileDefault", style |-> "method",
     member |-> "MakeProfileDefault", args |-> <<"Profile">>, ret |-> "unit"]
Device_profile_for_qualifiers ==
    [type |-> "Device", name |-> "profile_for_qualifiers", alias |-> "GetProfileForQualifiers", style |-> "method",
     member |-> "GetProfileForQualifiers", args |-> <<"strs">>, ret |-> "Profile"]
Device_profile_relation ==
    [type |-> "Device", name |-> "profile_relation", alias |-> "GetProfileRelation", style |-> "method",
     member |-> "GetProfileRelation", args |-> <<"Profile">>, ret |-> "Relation"]
Device_profiling_inhibit ==
    [type |-> "Device", name |-> "profiling_inhibit", alias |-> "ProfilingInhibit", style |-> "method",
     member |-> "ProfilingInhibit", args |-> <<>>, ret |-> "unit"]
Device_profiling_uninhibit ==
    [type |-> "Device", name |-> "profiling_uninhibit", alias |-> "ProfilingUninhibit", style |-> "method",
     member |-> "ProfilingUninhibit", args |-> <<>>, ret |-> "unit"]
Device_set_enabled ==
    [type |-> "Device", name |-> "set_enabled", alias |-> "SetEnabled", style |-> "method",
     member |-> "SetEnabled", args |-> <<"bool">>, ret |-> "unit"]
Device_changed ==
    [type |-> "Device", name |-> "changed", alias |-> "Changed", style |-> "signal",
     member |-> "Changed", args |-> <<>>, ret |-> "unit"]
Device_profiles ==
    [type |-> "Device", name |-> "profiles", alias |-> "Profiles", style |-> "property",
     member |-> "Profiles", args |-> <<>>, ret |-> "Profiles"]
Profile_set_property ==
    [type |-> "Profile", name |-> "set_property", alias |-> "SetProperty", style |-> "method",
     member |-> "SetProperty", args |-> <<"str", "str">>, ret |-> "unit"]
Profile_install_system_wide ==
    [type |-> "Profile", name |-> "install_system_wide", alias |-> "InstallSystemWide", style |-> "method",
     member |-> "InstallSystemWide", args |-> <<>>, ret |-> "unit"]
Profile_changed ==
    [type |-> "Profile", name |-> "changed", alias |-> "Changed", style |-> "signal",
     member |-> "Changed", args |-> <<>>, ret |-> "unit"]
Sensor_lock ==
    [type |-> "Sensor", name |-> "lock", alias |-> "Lock", style |-> "method",
     member |-> "Lock", args |-> <<>>, ret |-> "unit"]
Sensor_unlock ==
    [type |-> "Sensor", name |-> "unlock", alias |-> "Unlock", style |-> "method",
     member |-> "Unlock", args |-> <<>>, ret |-> "unit"]
Sensor_sample ==
    [type |-> "Sensor", name |-> "sample", alias |-> "GetSample", style |-> "method",
     member |-> "GetSample", args |-> <<"Capability">>, ret |-> "Sample"]
Sensor_spectrum ==
    [type |-> "Sensor", name |-> "spectrum", alias |-> "GetSpectrum", style |-> "method",
     member |-> "GetSpectrum", args |-> <<"Capability">>, ret |-> "Spectrum"]
Sensor_set_options ==
    [type |-> "Sensor", name |-> "set_options", alias |-> "SetOptions", style |-> "method",
     member |-> "SetOptions", args |-> <<"options">>, ret |-> "unit"]
Sensor_button_pressed ==
    [type |-> "Sensor", name |-> "button_pressed", alias |-> "ButtonPressed", style |-> "signal",
     member |-> "ButtonPressed", args |-> <<>>, ret |-> "unit"]

\* the property getters of ColorManager: each is self.inner().get_property(member)
ColorManagerProperties ==
   {[type |-> "ColorManager", name |-> "daemon_version", alias |-> "DaemonVersion", style |-> "property",
      member |-> "DaemonVersion", args |-> <<>>, ret |-> "String"],
    [type |-> "ColorManager", name |-> "system_vendor", alias |-> "SystemVendor", style |-> "property",
      member |-> "SystemVendor", args |-> <<>>, ret |-> "String"],
    [type |-> "ColorManager", name |-> "system_model", alias |-> "SystemModel", style |-> "property",
      member |-> "SystemModel", args |-> <<>>, ret |-> "String"]}

\* the property getters of Device: each is self.inner().get_property(member)
DeviceProperties ==
   {[type |-> "Device", name |-> "created", alias |-> "Created", style |-> "property",
      member |-> "Created", args |-> <<>>, ret |-> "u64"],
    [type |-> "Device", name |-> "modified", alias |-> "Modified", style |-> "property",
      member |-> "Modified", args |-> <<>>, ret |-> "u64"],
    [type |-> "Device", name |-> "model", alias |-> "Model", style |-> "property",
      member |-> "Model", args |-> <<>>, ret |-> "String"],
    [type |-> "Device", name |-> "serial", alias |-> "Serial", style |-> "property",
      member |-> "Serial", args |-> <<>>, ret |-> "String"],
    [type |-> "Device", name |-> "vendor", alias |-> "Vendor", style |-> "property",
      member |-> "Vendor", args |-> <<>>, ret |-> "String"],
    [type |-> "Device", name |-> "colorspace", alias |-> "Colorspace", style |-> "property",
      member |-> "Colorspace", args |-> <<>>, ret |-> "String"],
    [type |-> "Device", name |-> "kind", alias |-> "Kind", style |-> "property",
      member |-> "Kind", args |-> <<>>, ret |-> "Kind"],
    [type |-> "Device", name |-> "device_id", alias |-> "DeviceId", style |-> "property",
      member |-> "DeviceId", args |-> <<>>, ret |-> "String"],
    [type |-> "Device", name |-> "mode", alias |-> "Mode", style |-> "property",
      member |-> "Mode", args |-> <<>>, ret |-> "Mode"],
    [type |-> "Device", name |-> "format", alias |-> "Format", style |-> "property",
      member |-> "Format", args |-> <<>>, ret |-> "String"],
    [type |-> "Device", name |-> "scope", alias |-> "Scope", style |-> "property",
      member |-> "Scope", args |-> <<>>, ret |-> "Scope"],
    [type |-> "Device", name |-> "owner", alias |-> "Owner", style |-> "property",
      member |-> "Owner", args |-> <<>>, ret |-> "u32"],
    [type |-> "Device", name |-> "enabled", alias |-> "Enabled", style |-> "property",
      member |-> "Enabled", args |-> <<>>, ret |-> "bool"],
    [type |-> "Device", name |-> "seat", alias |-> "Seat", style |-> "property",
      member |-> "Seat", args |-> <<>>, ret |-> "String"],
    [type |-> "Device", name |-> "embedded", alias |-> "Embedded", style |-> "property",
      member |-> "Embedded", args |-> <<>>, ret |-> "String"],
    [type |-> "Device", name |-> "metadata", alias |-> "Metadata", style |-> "property",
      member |-> "Metadata", args |-> <<>>, ret |-> "Dict"],
    [type |-> "Device", name |-> "profiling_inhibitors", alias |-> "ProfilingInhibitors", style |-> "property",
      member |-> "ProfilingInhibitors", args |-> <<>>, ret |-> "Strings"],
    Device_profiles}

\* the property getters of Profile: each is self.inner().get_property(member)
ProfileProperties ==
   {[type |-> "Profile", name |-> "profile_id", alias |-> "ProfileId", style |-> "property",
      member |-> "ProfileId", args |-> <<>>, ret |-> "String"],
    [type |-> "Profile", name |-> "title", alias |-> "Title", style |-> "property",
      member |-> "Title", args |-> <<>>, ret |-> "String"],
    [type |-> "Profile", name |-> "metadata", alias |-> "Metadata", style |-> "property",
      member |-> "Metadata", args |-> <<>>, ret |-> "Dict"],
    [type |-> "Profile", name |-> "qualifier", alias |-> "Qualifier", style |-> "property",
      member |-> "Qualifier", args |-> <<>>, ret |-> "String"],
    [type |-> "Profile", name |-> "format", alias |-> "Format", style |-> "property",
      member |-> "Format", args |-> <<>>, ret |-> "String"],
    [type |-> "Profile", name |-> "kind", alias |-> "Kind", style |-> "property",
      member |-> "Kind", args |-> <<>>, ret |-> "String"],
    [type |-> "Profile", name |-> "colorspace", alias |-> "Colorspace", style |-> "property",
      member |-> "Colorspace", args |-> <<>>, ret |-> "String"],
    [type |-> "Profile", name |-> "has_vcgt", alias |-> "HasVcgt", style |-> "property",
      member |-> "HasVcgt", args |-> <<>>, ret |-> "bool"],
    [type |-> "Profile", name |-> "is_system_wide", alias |-> "IsSystemWide", style |-> "property",
      member |-> "IsSystemWide", args |-> <<>>, ret |-> "bool"],
    [type |-> "Profile", name |-> "filename", alias |-> "Filename", style |-> "property",
      member |-> "Filename", args |-> <<>>, ret |-> "String"],
    [type |-> "Profile", name |-> "created", alias |-> "Created", style |-> "property",
      member |-> "Created", args |-> <<>>, ret |-> "u64"],
    [type |-> "Profile", name |-> "scope", alias |-> "Scope", style |-> "property",
      member |-> "Scope", args |-> <<>>, ret |-> "Scope"],
    [type |-> "Profile", name |-> "owner", alias |-> "Owner", style |-> "property",
      member |-> "Owner", args |-> <<>>, ret |-> "u32"],
    [type |-> "Profile", name |-> "warnings", alias |-> "Warnings", style |-> "property",
      member |-> "Warnings", args |-> <<>>, ret |-> "Strings"]}

\* the property getters of Sensor: each is self.inner().get_property(member)
SensorProperties ==
   {[type |-> "Sensor", name |-> "sensor_id", alias |-> "SensorId", style |-> "property",
      member |-> "SensorId", args |-> <<>>, ret |-> "String"],
    [type |-> "Sensor", name |-> "kind", alias |-> "Kind", style |-> "property",
      member |-> "Kind", args |-> <<>>, ret |-> "String"],
    [type |-> "Sensor", name |-> "state", alias |-> "State", style |-> "property",
      member |-> "State", args |-> <<>>, ret |-> "String"],
    [type |-> "Sensor", name |-> "mode", alias |-> "Mode", style |-> "property",
      member |-> "Mode", args |-> <<>>, ret |-> "SensorMode"],
    [type |-> "Sensor", name |-> "serial", alias |-> "Serial", style |-> "property",
      member |-> "Serial", args |-> <<>>, ret |-> "String"],
    [type |-> "Sensor", name |-> "model", alias |-> "Model", style |-> "property",
      member |-> "Model", args |-> <<>>, ret |-> "String"],
    [type |-> "Sensor", name |-> "vendor", alias |-> "Vendor", style |-> "property",
      member |-> "Vendor", args |-> <<>>, ret |-> "String"],
    [type |-> "Sensor", name |-> "native", alias |-> "Native", style |-> "property",
      member |-> "Native", args |-> <<>>, ret |-> "bool"],
    [type |-> "Sensor", name |-> "locked", alias |-> "Locked", style |-> "property",
      member |-> "Locked", args |-> <<>>, ret |-> "bool"],
    [type |-> "Sensor", name |-> "capabilities", alias |-> "Capabilities", style |-> "property",
      member |-> "Capabilities", args |-> <<>>, ret |-> "Strings"],
    [type |-> "Sensor", name |-> "metadata", alias |-> "Metadata", style |-> "property",
      member |-> "Metadata", args |-> <<>>, ret |-> "Dict"]}

Ops ==
    {ColorManager_devices, ColorManager_devices_by_kind,
     ColorManager_find_device_by_id, ColorManager_find_sensor_by_id,
     ColorManager_find_device_by_property, ColorManager_find_profile_by_id,
     ColorManager_find_profile_by_property,
     ColorManager_find_profile_by_filename, ColorManager_standard_space,
     ColorManager_sensors, ColorManager_profiles_by_kind,
     ColorManager_create_profile_with_fd, ColorManager_create_profile,
     ColorManager_create_device, ColorManager_delete_device,
     ColorManager_delete_profile, ColorManager_changed,
     ColorManager_device_added, ColorManager_device_changed,
     ColorManager_profile_added, ColorManager_profile_removed,
     ColorManager_sensor_added, ColorManager_sensor_removed,
     ColorManager_profile_changed, Device_set_property, Device_add_profile,
     Device_remove_profile, Device_make_profile_default,
     Device_profile_for_qualifiers, Device_profile_relation,
     Device_profiling_inhibit, Device_profiling_uninhibit,
     Device_set_enabled, Device_changed, Profile_set_property,
     Profile_install_system_wide, Profile_changed, Sensor_lock,
     Sensor_unlock, Sensor_sample, Sensor_spectrum, Sensor_set_options,
     Sensor_button_pressed}
    \cup ColorManagerProperties \cup DeviceProperties
    \cup ProfileProperties \cup SensorProperties

-----------------------------------------------------------------------------
(* Messages *)

\* sensor::Capability
Crt == <<"C","r","t">>
Lcd == <<"L","c","d">>
Led == <<"L","e","d">>
Projector == <<"P","r","o","j","e","c","t","o","r">>
Capability == {Crt, Ambient, Lcd, Led, Projector}

\* a method call on the wire
Message(destination, path, interface, member, args) ==
    [destination |-> destination, path |-> path, interface |-> interface,
     member |-> member, args |-> args]

\* Proxy::call_method(member, &args): one message to the proxy's object
call_method(proxy, member, args) ==
    <<Message(proxy.destination, proxy.path, proxy.interface, member, args)>>

\* Proxy::get_property(name) without a property cache: one call of
\* org.freedesktop.DBus.Properties.Get for the proxy's interface
get_property(proxy, name) ==
    <<Message(proxy.destination, proxy.path, PropertiesInterface, "Get",
              <<Str(<<proxy.interface>>), Str(<<name>>)>>)>>

\* what a caller may pass for a parameter that is not a proxy, as it is
\* serialized in the body
ArgValues(sort) ==
    CASE sort = "str" -> {Str(<<"a">>), Str(<<"b">>)}
      [] sort = "dict" -> {Value("a{ss}", <<>>), Value("a{ss}", <<"k", "v">>)}
      [] sort = "raw_fd" -> {Value("i", <<"3">>)}
      [] sort = "Relation" -> {Serialize(v) : v \in Relation}
      [] sort = "Capability" -> {Serialize(v) : v \in Capability}
      [] sort = "bool" -> {Value("b", <<"true">>), Value("b", <<"false">>)}
      [] sort = "strs" -> {Value("as", <<>>), Value("as", <<"q">>)}
      [] sort = "options" -> {Value("a{sv}", <<>>), Value("a{sv}", <<"k", "v">>)}

NoProxy == [destination |-> "", path |-> "", interface |-> ""]

\* what a caller passes for one parameter: a proxy it holds (profile:
\* Profile<'_>, device: Device<'_>) or a plain value, and what the call's
\* body tuple serializes it to
Given(sort) ==
    IF sort \in {"Profile", "Device"}
    THEN {[proxy |-> p, wire |-> SerializeProxy(p)] : p \in Proxies(sort)}
    ELSE {[proxy |-> NoProxy, wire |-> v] : v \in ArgValues(sort)}

RECURSIVE ArgChoices(_)
ArgChoices(sorts) ==
    IF sorts = <<>> THEN {<<>>}
    ELSE {<<a>> \o rest : a \in Given(Head(sorts)), rest \in ArgChoices(Tail(sorts))}

\* the body of the call: the serialized parameters in order
Wire(given) == [i \in DOMAIN given |-> given[i].wire]

\* the messages an operation's body sends before its first await completes
Send(op, proxy, args) ==
    IF op.style = "method" THEN call_method(proxy, op.member, args)
    ELSE get_property(proxy, op.member)

-----------------------------------------------------------------------------
(* The peer's replies *)

RECURSIVE SeqsUpTo(_, _)
SeqsUpTo(S, n) ==
    IF n = 0 THEN {<<>>}
    ELSE SeqsUpTo(S, n - 1) \cup
         {Append(s, x) : s \in {t \in SeqsUpTo(S, n - 1) : Len(t) = n - 1}, x \in S}

bogus == <<"b","o","g","u","s">>

\* strings a peer may send where an enumeration is expected: every
\* variant's wire string, the capitalised literal of Kind's decoder, and a
\* member no version of this binding knows
WireStrings ==
    {RenameAllLowercase(v) : v \in Scope \cup Kind \cup Relation \cup Mode \cup SensorMode}
    \cup {lit_Camera, bogus}

ReplyBodies ==
    {Value("", <<>>)}
    \cup {Value("o", <<p>>) : p \in Paths}
    \cup {Value("ao", s) : s \in SeqsUpTo(Paths, MaxPaths)}
    \cup {Str(w) : w \in WireStrings}
    \cup {Value("b", <<"true">>), Value("b", <<"false">>), Value("t", <<"1">>),
          Value("u", <<"1000">>), Value("a{ss}", <<"k", "v">>), Value("as", <<"w">>),
          Value("(ddd)", <<"x", "y", "z">>), Value("(ddad)", <<"a", "b", "s1">>)}

ErrorNames == {"org.freedesktop.ColorManager.NotFound",
               "org.freedesktop.DBus.Error.UnknownObject"}

MethodReturn(body) == [tag |-> "MethodReturn", body |-> body, name |-> ""]
MethodError(name) == [tag |-> "Error", body |-> Value("", <<>>), name |-> name]

\* the signature a reply must have for msg.body::<T>() / T::try_from(value)
Signature(ret) ==
    CASE ret \in {"Device", "Profile", "Sensor"} -> "o"
      [] ret \in {"Devices", "Profiles", "Sensors"} -> "ao"
      [] ret = "Sample" -> "(ddd)"
      [] ret = "Spectrum" -> "(ddad)"
      [] ret = "String" -> "s"
      [] ret = "u64" -> "t"
      [] ret = "u32" -> "u"
      [] ret = "bool" -> "b"
      [] ret = "Dict" -> "a{ss}"
      [] ret = "Strings" -> "as"

ElementType(ret) ==
    CASE ret = "Devices" -> "Device"
      [] ret = "Profiles" -> "Profile"
      [] ret = "Sensors" -> "Sensor"

\* the rest of an operation's body once the body of the reply (or of the
\* signal) is at hand: decode it as the declared type and build the result
FromBody(op, body) ==
    CASE op.ret = "unit" -> Ok(<<>>)
      [] op.ret \in {"Kind", "Mode", "Scope", "SensorMode"} -> Decode(op.ret, body)
      [] op.ret = "Relation" -> RelationDeserialize(body)
      [] OTHER ->
           IF body.sig # Signature(op.ret) THEN Err("DecodeError")
           ELSE IF op.ret \in {"Device", "Profile", "Sensor"}
                THEN New(op.ret, Owned(body.val[1]))
           ELSE IF op.ret \in {"Devices", "Profiles", "Sensors"}
                THEN from_paths(ElementType(op.ret),
                                [i \in DOMAIN body.val |-> Owned(body.val[i])])
           ELSE Ok(body.val)

\* an error reply swallowed: the operation returns an empty success
ReturnSwallowingError(op, r) ==
    IF r.tag = "Error" THEN Ok(<<>>) ELSE FromBody(op, r.body)

\* call_method(..).await? / get_property(..).await: an error reply is
\* returned to the caller as it is; a method return goes on to be decoded
Return(op, r) ==
    IF r.tag = "Error" THEN Err(r.name) ELSE FromBody(op, r.body)

-----------------------------------------------------------------------------
(* The caller task: method calls and property reads *)

NoCall == [op |-> [type |-> "", name |-> "", alias |-> "", style |-> "",
                   member |-> "", args |-> <<>>, ret |-> ""],
           proxy |-> [destination |-> "", path |-> "", interface |-> ""],
           args |-> <<>>, given |-> <<>>]
NoReply == [tag |-> "", body |-> Value("", <<>>), name |-> ""]
NoResult == [tag |-> "", val |-> <<>>]
NoVariant == <<>>
NoRule == [sender |-> "", path |-> "", interface |-> "", member |-> ""]
NoSignalStream == [live |-> FALSE, rule |-> NoRule, queue |-> <<>>, ended |-> FALSE]

CallOps == {op \in Ops : op.style \in {"method", "property"}}
SignalOps == {op \in Ops : op.style = "signal"}

TaskInit ==
    /\ pc = "idle"
    /\ call = NoCall
    /\ sent = <<>>
    /\ reply = NoReply
    /\ result = NoResult

SignalInit ==
    /\ emitted = <<>>
    /\ stream = NoSignalStream
    /\ resolvedBy = 0
    /\ subscribedAt = 0

CodecIdle ==
    /\ cty = "Scope"
    /\ cin = NoVariant
    /\ cwire = Value("", <<>>)
    /\ cout = NoResult
    /\ cpc = "off"

NoBuilt == [by |-> "", type |-> "", paths |-> <<>>, result |-> NoResult]
NoIssue == [generation |-> 0, absent |-> FALSE]
NoWaiter == [pc |-> "idle", call |-> NoCall, stream |-> NoSignalStream]

\* nothing was constructed by hand, every object of the peer exists, the
\* proxies hold no property value, and no second task is waiting
HarnessIdle ==
    /\ built = NoBuilt
    /\ peer = [objects |-> Paths, deleted |-> {}, generation |-> 0]
    /\ cache = {}
    /\ issued = NoIssue
    /\ waiter = NoWaiter

Init == TaskInit /\ SignalInit /\ CodecIdle /\ HarnessIdle

\* the caller invokes a method or a property getter: the body runs up to the
\* await of the reply
Invoke ==
    /\ pc = "idle"
    /\ \E op \in CallOps : \E proxy \in Proxies(op.type) : \E given \in ArgChoices(op.args) :
          /\ call' = [op |-> op, proxy |-> proxy, args |-> Wire(given), given |-> given]
          /\ sent' = Send(op, proxy, Wire(given))
    /\ pc' = "await"
    /\ reply' = NoReply
    /\ result' = NoResult
    /\ UNCHANGED <<codecVars, signalVars>>
    /\ UNCHANGED harnessVars

\* the peer answers with a method return and the body runs to its end
ReplyReturn ==
    /\ pc = "await"
    /\ \E body \in ReplyBodies :
          /\ reply' = MethodReturn(body)
          /\ result' = Return(call.op, MethodReturn(body))
    /\ pc' = "done"
    /\ UNCHANGED <<call, sent, codecVars, signalVars>>
    /\ UNCHANGED harnessVars

\* the peer answers with an error and the body runs to its end
ReplyError ==
    /\ pc = "await"
    /\ \E name \in ErrorNames :
          /\ reply' = MethodError(name)
          /\ result' = Return(call.op, MethodError(name))
    /\ pc' = "done"
    /\ UNCHANGED <<call, sent, codecVars, signalVars>>
    /\ UNCHANGED harnessVars

\* the caller takes the result; the operation's locals are gone
Finish ==
    /\ pc = "done"
    /\ pc' = "idle"
    /\ call' = NoCall
    /\ sent' = <<>>
    /\ reply' = NoReply
    /\ result' = NoResult
    /\ resolvedBy' = 0
    /\ subscribedAt' = 0
    /\ UNCHANGED <<codecVars, emitted, stream>>
    /\ UNCHANGED harnessVars

Next == Invoke \/ ReplyReturn \/ ReplyError \/ Finish

Spec == Init /\ [][Next]_vars

-----------------------------------------------------------------------------
(* The enumeration codec harness: a variant is encoded and the wire value  *)
(* decoded, or a wire value a peer may send is decoded.                    *)

CodecWireValues == {Str(w) : w \in WireStrings} \cup {Value("u", <<"1000">>)}

CodecInit ==
    /\ TaskInit
    /\ SignalInit
    /\ HarnessIdle
    /\ cty \in EnumTypes
    /\ cout = NoResult
    /\ \/ /\ cpc = "variant"
          /\ cin \in Variants(cty)
          /\ cwire = Value("", <<>>)
       \/ /\ cpc = "wire"
          /\ cin = NoVariant
          /\ cwire \in CodecWireValues
       \/ /\ cpc = "default"
          /\ cty \in DefaultTypes
          /\ cin = NoVariant
          /\ cwire = Value("", <<>>)

CodecEncode ==
    /\ cpc = "variant"
    /\ cwire' = Serialize(cin)
    /\ cpc' = "wire"
    /\ UNCHANGED <<cty, cin, cout, taskVars, signalVars>>
    /\ UNCHANGED harnessVars

CodecDecode ==
    /\ cpc = "wire"
    /\ cout' = Decode(cty, cwire)
    /\ cpc' = "decoded"
    /\ UNCHANGED <<cty, cin, cwire, taskVars, signalVars>>
    /\ UNCHANGED harnessVars

\* a caller takes the default value of the type
CodecDefault ==
    /\ cpc = "default"
    /\ cout' = Ok(Default(cty))
    /\ cpc' = "defaulted"
    /\ UNCHANGED <<cty, cin, cwire, taskVars, signalVars>>
    /\ UNCHANGED harnessVars

CodecNext == CodecEncode \/ CodecDecode \/ CodecDefault

SpecCodec == CodecInit /\ [][CodecNext]_vars

-----------------------------------------------------------------------------
(* Claims about the enumeration codecs *)

\* C1: for Scope, device Kind, device Mode and sensor Mode, decoding the
\* wire string a variant encodes to yields that variant again.
C1_RoundTrip ==
    (cpc = "decoded" /\ cin # NoVariant /\ cty \in {"Scope", "Kind", "Mode", "SensorMode"})
        => (cout.tag = "Ok" /\ cout.val = cin)

\* the value decoding falls back to
Fallback(ty) ==
    CASE ty = "Scope" -> ScopeDefault
      [] ty = "Kind" -> Display
      [] ty = "Relation" -> RelationDefault
      [] ty = "Mode" -> ModeDefault
      [] ty = "SensorMode" -> Unknown

\* the strings that name a member of the type: its variants' wire strings
\* and the literals its decoder matches
Recognized(ty) ==
    {RenameAllLowercase(v) : v \in Variants(ty)}
    \cup (IF ty = "Kind" THEN {lit_Camera} ELSE {})

\* C2: an operation that decodes an enumeration from the peer's reply
\* succeeds with the type's default when the reply is a string that names no
\* member of the type; Device.profile_relation among them.
C2_DecodingTotal ==
    (/\ pc = "done"
     /\ call.op.ret \in EnumTypes
     /\ reply.tag = "MethodReturn"
     /\ reply.body.sig = "s"
     /\ reply.body.val \notin Recognized(call.op.ret))
        => (result.tag = "Ok" /\ result.val = Fallback(call.op.ret))

-----------------------------------------------------------------------------
(* Claims about method calls *)

\* C3: every ColorManager method sends the wire method named by its doc
\* alias, and find_profile_by_id sends FindProfileById with exactly one
\* argument, the profile id.
C3_WireMethodIsDocAlias ==
    (pc \in {"await", "done"} /\ call.op.type = "ColorManager" /\ call.op.style = "method")
        => /\ Len(sent) = 1
           /\ sent[1].member = call.op.alias
           /\ call.op.name = "find_profile_by_id"
                => /\ sent[1].member = "FindProfileById"
                   /\ Len(sent[1].args) = 1
                   /\ sent[1].args = call.args

\* C4: a method-style operation has sent exactly one method call, to its
\* proxy's object, from the moment it awaits the reply until it has
\* returned; and when the peer replied with an error the operation returned
\* that error and nothing else.
C4_OneCallErrorPropagates ==
    (pc \in {"await", "done"} /\ call.op.style = "method")
        => /\ Len(sent) = 1
           /\ sent[1].path = call.proxy.path
           /\ sent[1].interface = call.proxy.interface
           /\ (pc = "done" /\ reply.tag = "Error")
                => (result.tag = "Err" /\ result.val = <<reply.name>>)

\* find_device_by_id was answered with an error and returned it
C4_Witness ==
    /\ pc = "done"
    /\ call.op = ColorManager_find_device_by_id
    /\ reply = MethodError("org.freedesktop.ColorManager.NotFound")
    /\ result.tag = "Err"
    /\ Len(sent) = 1

ListingOps == {ColorManager_devices, ColorManager_devices_by_kind, ColorManager_sensors,
               ColorManager_profiles_by_kind, Device_profiles}

\* C5: a listing operation answered with n object paths returns n proxies,
\* the i-th bound to the i-th path and to the listed wrapper's interface;
\* answered with no path it returns the empty vector.
C5_ListingPreservesOrder ==
    (/\ pc = "done"
     /\ call.op \in ListingOps
     /\ reply.tag = "MethodReturn"
     /\ reply.body.sig = "ao")
        => /\ result.tag = "Ok"
           /\ Len(result.val) = Len(reply.body.val)
           /\ \A i \in 1..Len(reply.body.val) :
                 result.val[i] = [destination |-> Destination,
                                  path |-> reply.body.val[i],
                                  interface |-> Interface(ElementType(call.op.ret))]

\* a listing answered with two different paths has returned
C5_Witness ==
    /\ pc = "done"
    /\ call.op \in ListingOps
    /\ reply.tag = "MethodReturn"
    /\ reply.body.sig = "ao"
    /\ Len(reply.body.val) = 2
    /\ reply.body.val[1] # reply.body.val[2]
    /\ result.tag = "Ok"
    /\ Len(result.val) = 2

-----------------------------------------------------------------------------
(* Signals *)

Signal(path, interface, member, body) ==
    [sender |-> Destination, path |-> path, interface |-> interface,
     member |-> member, body |-> body]

\* what the peer may emit: the root object's signals, carrying the path of
\* the entity they are about, and the entities' own signals
ManagerSignals ==
    LET I == Interface("ColorManager")
    IN {Signal(ManagerPath, I, "Changed", Value("", <<>>))}
       \cup {Signal(ManagerPath, I, m, Value("o", <<p>>)) :
                m \in {"DeviceAdded", "DeviceChanged"}, p \in DevicePaths}
       \cup {Signal(ManagerPath, I, m, Value("o", <<p>>)) :
                m \in {"ProfileAdded", "ProfileRemoved", "ProfileChanged"}, p \in ProfilePaths}
       \cup {Signal(ManagerPath, I, m, Value("o", <<p>>)) :
                m \in {"SensorAdded", "SensorRemoved"}, p \in SensorPaths}
       \cup {Signal(ManagerPath, I, "DeviceAdded", Str(bogus))}

EntitySignals ==
    {Signal(p, Interface("Device"), "Changed", Value("", <<>>)) : p \in DevicePaths}
    \cup {Signal(p, Interface("Profile"), "Changed", Value("", <<>>)) : p \in ProfilePaths}
    \cup {Signal(p, Interface("Sensor"), "ButtonPressed", Value("", <<>>)) : p \in SensorPaths}

Signals == ManagerSignals \cup EntitySignals

\* a field of a match rule that is left out matches anything
AnyField == "*"

\* the filter of a SignalStream
Matches(rule, ev) ==
    /\ rule.sender \in {AnyField, ev.sender}
    /\ rule.path \in {AnyField, ev.path}
    /\ rule.interface \in {AnyField, ev.interface}
    /\ rule.member \in {AnyField, ev.member}

\* the indexes of the signals of a history that a rule matches, in order
RECURSIVE MatchingIn(_, _, _)
MatchingIn(rule, history, from) ==
    IF from > Len(history) THEN <<>>
    ELSE (IF Matches(rule, history[from]) THEN <<from>> ELSE <<>>)
         \o MatchingIn(rule, history, from + 1)

ProxyRule(proxy, name) ==
    [sender |-> proxy.destination, path |-> proxy.path,
     interface |-> proxy.interface, member |-> name]

\* a stream that starts with the signals the connection received earlier
receive_signal_replaying(received, proxy, name) ==
    [live |-> TRUE, rule |-> ProxyRule(proxy, name),
     queue |-> MatchingIn(ProxyRule(proxy, name), received, 1), ended |-> FALSE]

\* a stream of every signal with the member name, whatever object sent it
receive_signal_any_object(received, proxy, name) ==
    [live |-> TRUE,
     rule |-> [sender |-> proxy.destination, path |-> AnyField, interface |-> AnyField,
               member |-> name],
     queue |-> <<>>, ended |-> FALSE]

\* self.inner().receive_signal(name).await?: a new stream of the signals
\* with that member name that the proxy's object emits on the proxy's
\* interface.  `received` is what the connection received before the call:
\* the new stream holds none of it.
receive_signal(received, proxy, name) ==
    [live |-> TRUE, rule |-> ProxyRule(proxy, name), queue |-> <<>>, ended |-> FALSE]

\* the connection hands a received signal (its index in emitted) to the
\* stream when the stream is open and its rule matches
Deliver(s, ev, idx) ==
    IF s.live /\ ~s.ended /\ Matches(s.rule, ev)
    THEN [s EXCEPT !.queue = Append(@, idx)]
    ELSE s

\* the newest item of the stream
stream_next_latest(s) == IF s.queue = <<>> THEN 0 ELSE s.queue[Len(s.queue)]

\* stream.next().await: the oldest item not yet taken; 0 stands for None
stream_next(s) == IF s.queue = <<>> THEN 0 ELSE Head(s.queue)

\* a closed stream taken for an event
ok_or_success(op, idx, history) ==
    IF idx = 0 THEN Ok(<<>>) ELSE FromBody(op, history[idx].body)

\* .ok_or(zbus::Error::Failure("No response"))? and the rest of the body
ok_or(op, idx, history) ==
    IF idx = 0 THEN Err("No response") ELSE FromBody(op, history[idx].body)

\* a stream that outlives the body that made it
drop_stream_leaking(s) == s

\* the body returns, by Ok or by ?: `stream` is a local (let mut stream) and
\* goes out of scope, which ends the subscription
drop_stream(s) == NoSignalStream

\* the caller invokes a notification operation: the body runs up to the
\* await of stream.next().  (The match rule is registered with the bus
\* daemon, not with the peer.)
Subscribe ==
    /\ pc = "idle"
    /\ \E op \in SignalOps : \E proxy \in Proxies(op.type) :
          /\ call' = [op |-> op, proxy |-> proxy, args |-> <<>>, given |-> <<>>]
          /\ stream' = receive_signal(emitted, proxy, op.member)
    /\ subscribedAt' = Len(emitted)
    /\ pc' = "waiting"
    /\ sent' = <<>>
    /\ reply' = NoReply
    /\ result' = NoResult
    /\ resolvedBy' = 0
    /\ UNCHANGED <<codecVars, emitted>>
    /\ UNCHANGED harnessVars

\* the peer emits a signal
Emit ==
    /\ Len(emitted) < MaxEvents
    /\ \E ev \in Signals :
          /\ emitted' = Append(emitted, ev)
          /\ stream' = Deliver(stream, ev, Len(emitted) + 1)
    /\ UNCHANGED <<codecVars, taskVars, resolvedBy, subscribedAt>>
    /\ UNCHANGED harnessVars

\* the stream's source closes
StreamEnd ==
    /\ pc = "waiting"
    /\ ~stream.ended
    /\ stream' = [stream EXCEPT !.ended = TRUE]
    /\ UNCHANGED <<codecVars, taskVars, emitted, resolvedBy, subscribedAt>>
    /\ UNCHANGED harnessVars

\* stream.next() yields a signal and the body runs to its end; the stream,
\* a local of the body, is dropped
NextSome ==
    /\ pc = "waiting"
    /\ stream_next(stream) # 0
    /\ resolvedBy' = stream_next(stream)
    /\ result' = ok_or(call.op, stream_next(stream), emitted)
    /\ stream' = drop_stream(stream)
    /\ pc' = "done"
    /\ UNCHANGED <<codecVars, call, sent, reply, emitted, subscribedAt>>
    /\ UNCHANGED harnessVars

\* stream.next() yields None: the stream is closed and empty
NextNone ==
    /\ pc = "waiting"
    /\ stream.ended
    /\ stream_next(stream) = 0
    /\ resolvedBy' = 0
    /\ result' = ok_or(call.op, 0, emitted)
    /\ stream' = drop_stream(stream)
    /\ pc' = "done"
    /\ UNCHANGED <<codecVars, call, sent, reply, emitted, subscribedAt>>
    /\ UNCHANGED harnessVars

SignalNext == Subscribe \/ Emit \/ StreamEnd \/ NextSome \/ NextNone \/ Finish

SpecSignal == Init /\ [][SignalNext]_vars

-----------------------------------------------------------------------------
(* Claims about notifications *)

\* the signal is one the operation's notification is about: it has the
\* operation's signal name and comes from the proxy's object and interface
About(c, ev) ==
    /\ ev.member = c.op.alias
    /\ ev.path = c.proxy.path
    /\ ev.interface = c.proxy.interface

\* C6: a notification operation holds and consumes only signals emitted
\* after it made its stream; with none emitted since, it has nothing to
\* resolve on.
C6_NoHistoricalEvent ==
    /\ pc = "waiting"
         => /\ \A i \in 1..Len(stream.queue) : stream.queue[i] > subscribedAt
            /\ Len(emitted) = subscribedAt => stream_next(stream) = 0
    /\ (pc = "done" /\ call.op.style = "signal" /\ result.tag = "Ok")
         => resolvedBy > subscribedAt

\* an operation invoked after a signal it is about had been emitted has
\* resolved, on a later signal
C6_Witness ==
    /\ pc = "done"
    /\ call.op.style = "signal"
    /\ result.tag = "Ok"
    /\ subscribedAt >= 1
    /\ \E i \in 1..subscribedAt : About(call, emitted[i])
    /\ resolvedBy > subscribedAt

ManagerEntitySignalOps ==
    {ColorManager_device_added, ColorManager_device_changed, ColorManager_profile_added,
     ColorManager_profile_removed, ColorManager_profile_changed,
     ColorManager_sensor_added, ColorManager_sensor_removed}

\* the index of the first signal after the subscription that the operation
\* is about, or 0
FirstAbout(c, history, since) ==
    IF \E i \in (since + 1)..Len(history) : About(c, history[i])
    THEN CHOOSE i \in (since + 1)..Len(history) :
            /\ About(c, history[i])
            /\ \A j \in (since + 1)..(i - 1) : ~About(c, history[j])
    ELSE 0

\* C7: a Manager entity notification resolves on the first signal of its
\* name that the root object emits after the subscription, and returns a
\* proxy of the notified wrapper bound to the path that signal carries.
C7_FirstSignalItsPath ==
    /\ (pc = "waiting" /\ call.op \in ManagerEntitySignalOps)
         => stream_next(stream) \in {0, FirstAbout(call, emitted, subscribedAt)}
    /\ (pc = "done" /\ call.op \in ManagerEntitySignalOps /\ resolvedBy # 0)
         => /\ resolvedBy = FirstAbout(call, emitted, subscribedAt)
            /\ emitted[resolvedBy].body.sig = "o"
                 => /\ result.tag = "Ok"
                    /\ result.val = Proxy(call.op.ret, emitted[resolvedBy].body.val[1])

\* device_added resolved while two DeviceAdded signals for different
\* devices had been emitted since its subscription
C7_Witness ==
    /\ pc = "done"
    /\ call.op = ColorManager_device_added
    /\ subscribedAt = 0
    /\ Len(emitted) >= 2
    /\ About(call, emitted[1]) /\ About(call, emitted[2])
    /\ emitted[1].body.sig = "o" /\ emitted[2].body.sig = "o"
    /\ emitted[1].body # emitted[2].body
    /\ result.tag = "Ok"
    /\ result.val.path = emitted[1].body.val[1]

\* C8: a notification operation that returned without having taken a
\* signal from its stream (the stream closed first) returned the failure
\* `No response`.
C8_NoResponse ==
    (pc = "done" /\ call.op.style = "signal" /\ resolvedBy = 0)
        => (result.tag = "Err" /\ result.val = <<"No response">>)

\* a notification returned on a closed stream
C8_Witness ==
    /\ pc = "done"
    /\ call.op.style = "signal"
    /\ resolvedBy = 0
    /\ result.tag = "Err"

EntitySignalOps == {Device_changed, Profile_changed, Sensor_button_pressed}

\* C10: Device.changed, Profile.changed and Sensor.button_pressed hold and
\* resolve on signals of the proxy's own object and interface only.
C10_OwnObjectOnly ==
    /\ (pc = "waiting" /\ call.op \in EntitySignalOps)
         => \A i \in 1..Len(stream.queue) :
               /\ emitted[stream.queue[i]].path = call.proxy.path
               /\ emitted[stream.queue[i]].interface = call.proxy.interface
    /\ (pc = "done" /\ call.op \in EntitySignalOps /\ resolvedBy # 0)
         => /\ emitted[resolvedBy].path = call.proxy.path
            /\ emitted[resolvedBy].interface = call.proxy.interface

\* Device.changed resolved on its second signal since the subscription,
\* the first having been a Changed signal of another object
C10_Witness ==
    /\ pc = "done"
    /\ call.op = Device_changed
    /\ subscribedAt = 0
    /\ resolvedBy = 2
    /\ emitted[1].member = "Changed"
    /\ emitted[1].path # call.proxy.path
    /\ result.tag = "Ok"

-----------------------------------------------------------------------------
(* The peer as a keeper of objects.  It answers each call from the state   *)
(* it is in when the call reaches it: a call to a path where no object is  *)
(* exported is answered with an error, a property read with the value the  *)
(* property has then.                                                      *)

\* most changes of the peer's property values in one run
MaxChanges == 2

\* a property cache that is filled by the first read of each property
cache_properties_lazily == "Lazily"

\* ProxyBuilder::cache_properties(zbus::CacheProperties::No), in
\* ColorManager::from_connection, Device::new, Profile::new and Sensor::new
cache_properties == "No"

\* Proxy::get_property consults the proxy's cache unless caching is off
cached_property(proxy, name) ==
    IF cache_properties = "No" THEN {}
    ELSE {e \in cache : e.path = proxy.path /\ e.name = name}

\* Proxy::get_property keeps the value it fetched unless caching is off
cache_insert(op, proxy, r) ==
    IF cache_properties = "No" \/ op.style # "property" \/ r.tag # "MethodReturn"
    THEN cache
    ELSE cache \cup {[path |-> proxy.path, name |-> op.member, value |-> r.body]}

\* an object is exported at the path
Exists(path) == path = ManagerPath \/ path \in peer.objects

\* the value a property has at the peer after so many changes, in the
\* type its getter reads it as; the list of a device's profiles
\* alternates between empty and one profile
PeerValue(op, generation) ==
    CASE op.ret \in {"Kind", "Mode", "Scope", "SensorMode"} ->
             Value("s", <<ToString(generation)>>)
      [] op.ret = "Profiles" ->
             Value("ao", IF generation % 2 = 0 THEN <<>>
                         ELSE <<CHOOSE p \in ProfilePaths : TRUE>>)
      [] OTHER -> Value(Signature(op.ret), <<ToString(generation)>>)

\* the bodies a method of an existing object may return: of the type the
\* operation reads, naming existing objects only
AnswerBodies(op) ==
    {b \in ReplyBodies :
        /\ b.sig = (CASE op.ret = "unit" -> ""
                      [] op.ret \in {"Relation"} -> "s"
                      [] OTHER -> Signature(op.ret))
        /\ b.sig \in {"o", "ao"} => \A i \in DOMAIN b.val : b.val[i] \in peer.objects}

\* the peer's answers to a call that reached an existing object
Answers(op, m) ==
    IF op.style = "property" THEN {MethodReturn(PeerValue(op, peer.generation))}
    ELSE IF m.member \in {"DeleteDevice", "DeleteProfile"}
         THEN IF m.args[1].val[1] \in peer.objects
              THEN {MethodReturn(Value("", <<>>))}
              ELSE {MethodError("org.freedesktop.ColorManager.NotFound")}
    ELSE {MethodReturn(b) : b \in AnswerBodies(op)}
         \cup {MethodError("org.freedesktop.ColorManager.NotFound")}

\* the peer's objects once it has answered: DeleteDevice and DeleteProfile
\* remove the object named by the argument
ObjectsAfter(m, r) ==
    IF m.member \in {"DeleteDevice", "DeleteProfile"} /\ r.tag = "MethodReturn"
    THEN peer.objects \ {m.args[1].val[1]}
    ELSE peer.objects

\* the caller invokes a method or a property getter on a proxy it holds,
\* whether or not the object still exists
RemoteInvoke ==
    /\ pc = "idle"
    /\ \E op \in CallOps : \E proxy \in Proxies(op.type) : \E given \in ArgChoices(op.args) :
          LET hit == IF op.style = "property" THEN cached_property(proxy, op.member)
                     ELSE {}
          IN /\ call' = [op |-> op, proxy |-> proxy, args |-> Wire(given), given |-> given]
             /\ issued' = [generation |-> peer.generation, absent |-> ~Exists(proxy.path)]
             /\ IF hit # {}
                THEN /\ sent' = <<>>
                     /\ result' = FromBody(op, (CHOOSE e \in hit : TRUE).value)
                     /\ pc' = "done"
                ELSE /\ sent' = Send(op, proxy, Wire(given))
                     /\ result' = NoResult
                     /\ pc' = "await"
    /\ reply' = NoReply
    /\ UNCHANGED <<codecVars, signalVars, built, peer, cache, waiter>>

\* the call reaches a path where no object is exported
PeerRefuse ==
    /\ pc = "await"
    /\ ~Exists(sent[1].path)
    /\ reply' = MethodError("org.freedesktop.DBus.Error.UnknownObject")
    /\ result' = Return(call.op, reply')
    /\ pc' = "done"
    /\ UNCHANGED <<call, sent, codecVars, signalVars, built, peer, cache, issued, waiter>>

\* the call reaches an object and is answered from the peer's state
PeerAnswer ==
    /\ pc = "await"
    /\ Exists(sent[1].path)
    /\ \E r \in Answers(call.op, sent[1]) :
          /\ reply' = r
          /\ result' = Return(call.op, r)
          /\ peer' = [peer EXCEPT !.objects = ObjectsAfter(sent[1], r),
                                  !.deleted = @ \cup (peer.objects \ ObjectsAfter(sent[1], r))]
          /\ cache' = cache_insert(call.op, call.proxy, r)
    /\ pc' = "done"
    /\ UNCHANGED <<call, sent, codecVars, signalVars, built, issued, waiter>>

\* the peer's property values change
PeerChange ==
    /\ peer.generation < MaxChanges
    /\ peer' = [peer EXCEPT !.generation = @ + 1]
    /\ UNCHANGED <<codecVars, taskVars, signalVars, built, cache, issued, waiter>>

\* an object goes away at the peer on its own: a device is unplugged,
\* another client deletes a profile
PeerDrop ==
    /\ \E p \in peer.objects : peer' = [peer EXCEPT !.objects = @ \ {p}]
    /\ UNCHANGED <<codecVars, taskVars, signalVars, built, cache, issued, waiter>>

RemoteNext == RemoteInvoke \/ PeerRefuse \/ PeerAnswer \/ PeerChange \/ PeerDrop \/ Finish

SpecRemote == Init /\ [][RemoteNext]_vars

-----------------------------------------------------------------------------
(* Claims about removed objects and about property reads *)

\* C11: a method call or property read issued through a proxy after the
\* object at its path was removed returns an error, never a success.
C11_RemovedObjectErrors ==
    (pc = "done" /\ issued.absent) => result.tag = "Err"

\* a device was deleted with delete_device and a property of it is then
\* read through a proxy of that device
C11_Witness ==
    /\ pc = "done"
    /\ issued.absent
    /\ call.op.style = "property"
    /\ call.proxy.path \in DevicePaths \cap peer.deleted
    /\ result.tag = "Err"

\* C12: a property read sends one fresh Get for the proxy's object, and what
\* it returns is a value the property had at or after the moment the read
\* was issued, never one the peer had replaced before.
C12_FreshPropertyRead ==
    (pc \in {"await", "done"} /\ call.op.style = "property")
        => /\ sent = get_property(call.proxy, call.op.member)
           /\ (pc = "done" /\ reply.tag = "MethodReturn")
                => reply.body \in {PeerValue(call.op, g) :
                                      g \in issued.generation..peer.generation}
           /\ (pc = "done" /\ result.tag = "Ok"
                 /\ call.op.ret \in {"String", "u64", "u32", "bool", "Dict", "Strings"})
                => result.val \in {<<ToString(g)>> :
                                      g \in issued.generation..peer.generation}

\* the peer's value changed, and a read issued afterwards returned the new
\* value
C12_Witness ==
    /\ pc = "done"
    /\ call.op.style = "property"
    /\ call.op.ret = "String"
    /\ issued.generation > 0
    /\ result = Ok(<<ToString(issued.generation)>>)

-----------------------------------------------------------------------------
(* A caller that constructs proxies from paths of its own, and then uses   *)
(* the proxies it got.                                                     *)

EntityTypes == {"Device", "Profile", "Sensor"}

\* path text a caller may pass: a path, the root, and text that is no path
\* (relative, trailing slash, empty element, a space, empty)
PathTexts ==
    {<<"/","d","1">>, <<"/">>, <<"d","1">>, <<"/","d","/">>,
     <<"/","/","d">>, <<"/","d"," ">>, <<>>}

\* Device::new(connection, text), Profile::new, Sensor::new
Construct ==
    /\ pc = "idle"
    /\ \E type \in EntityTypes : \E chars \in PathTexts :
          built' = [by |-> "new", type |-> type, paths |-> <<Text(chars)>>,
                    result |-> New(type, Text(chars))]
    /\ UNCHANGED <<codecVars, taskVars, signalVars, remoteVars, waiter>>

\* Device::from_paths(connection, paths), Profile::from_paths,
\* Sensor::from_paths, which are generic in the type of the paths, applied
\* to text
ListFromPaths ==
    /\ pc = "idle"
    /\ \E type \in EntityTypes :
       \E paths \in SeqsUpTo({Text(chars) : chars \in PathTexts}, MaxPaths) :
          built' = [by |-> "from_paths", type |-> type, paths |-> paths,
                    result |-> from_paths(type, paths)]
    /\ UNCHANGED <<codecVars, taskVars, signalVars, remoteVars, waiter>>

\* the proxies the construction gave the caller
BuiltProxies ==
    IF built.result.tag # "Ok" THEN {}
    ELSE IF built.by = "new" THEN {built.result.val}
    ELSE {built.result.val[i] : i \in DOMAIN built.result.val}

\* the caller invokes a method or a property getter of a proxy it built
InvokeBuilt ==
    /\ pc = "idle"
    /\ \E proxy \in BuiltProxies :
       \E op \in {o \in CallOps : o.type = built.type} :
       \E given \in ArgChoices(op.args) :
          /\ call' = [op |-> op, proxy |-> proxy, args |-> Wire(given), given |-> given]
          /\ sent' = Send(op, proxy, Wire(given))
    /\ pc' = "await"
    /\ reply' = NoReply
    /\ result' = NoResult
    /\ UNCHANGED <<codecVars, signalVars, harnessVars>>

\* the caller invokes a notification operation of a proxy it built
SubscribeBuilt ==
    /\ pc = "idle"
    /\ \E proxy \in BuiltProxies :
       \E op \in {o \in SignalOps : o.type = built.type} :
          /\ call' = [op |-> op, proxy |-> proxy, args |-> <<>>, given |-> <<>>]
          /\ stream' = receive_signal(emitted, proxy, op.member)
    /\ subscribedAt' = Len(emitted)
    /\ pc' = "waiting"
    /\ sent' = <<>>
    /\ reply' = NoReply
    /\ result' = NoResult
    /\ resolvedBy' = 0
    /\ UNCHANGED <<codecVars, emitted, harnessVars>>

BuildNext ==
    \/ Construct \/ ListFromPaths \/ InvokeBuilt \/ SubscribeBuilt
    \/ ReplyReturn \/ ReplyError \/ StreamEnd \/ NextNone \/ Finish

SpecBuild == Init /\ [][BuildNext]_vars

-----------------------------------------------------------------------------
(* Claims about constructing proxies *)

\* the paths a caller's texts denote
TextPaths == {Join(chars) : chars \in {t \in PathTexts : IsObjectPath(t)}}

\* C13: a constructor given text that is not an object path returns an
\* error and no proxy, and nothing is ever sent or subscribed for a path
\* that is not an object path.
C13_InvalidPathNoProxy ==
    /\ (built.by = "new" /\ ~IsObjectPath(built.paths[1].text))
          => (built.result.tag = "Err" /\ BuiltProxies = {})
    /\ \A i \in DOMAIN sent : sent[i].path \in TextPaths
    /\ stream.live => stream.rule.path \in TextPaths

\* a constructor was given a path with a trailing slash
C13_Witness ==
    /\ built.by = "new"
    /\ built.paths = <<Text(<<"/","d","/">>)>>
    /\ built.result.tag = "Err"
    /\ pc = "idle"
    /\ sent = <<>>

\* the indexes of the paths no proxy can be built from
Failing(type, paths) == {i \in DOMAIN paths : New(type, paths[i]).tag # "Ok"}

\* C20: from_paths builds one proxy per path in order; when the constructor
\* fails at index k the result is that constructor's error and none of the
\* proxies built before it, and when no constructor fails it is all the
\* proxies in order.
C20_AllOrNothing ==
    built.by = "from_paths"
        => IF Failing(built.type, built.paths) = {}
           THEN /\ built.result.tag = "Ok"
                /\ Len(built.result.val) = Len(built.paths)
                /\ \A i \in DOMAIN built.paths :
                      Ok(built.result.val[i]) = New(built.type, built.paths[i])
           ELSE LET k == CHOOSE i \in Failing(built.type, built.paths) :
                             \A j \in Failing(built.type, built.paths) : i <= j
                IN /\ built.result = New(built.type, built.paths[k])
                   /\ built.result.tag = "Err"
                   /\ BuiltProxies = {}

\* the first path gave a proxy, the second is no path, and the listing
\* returned the error
C20_Witness ==
    /\ built.by = "from_paths"
    /\ built.paths = <<Text(<<"/","d","1">>), Text(<<"d","1">>)>>
    /\ built.result.tag = "Err"

-----------------------------------------------------------------------------
(* Claims about what a call puts on the wire and what a read makes of the  *)
(* peer's value                                                            *)

\* C14: create_profile_with_fd passes the caller's file handle out of band:
\* the third argument of the message has the wire type of a file descriptor
\* ("h", an index into the descriptors attached to the message), it is not
\* an integer holding the local descriptor number.
C14_HandleOutOfBand ==
    (pc \in {"await", "done"} /\ call.op = ColorManager_create_profile_with_fd)
        => /\ Len(sent) = 1
           /\ Len(sent[1].args) = 4
           /\ sent[1].args[3].sig = "h"

\* C15: Device.embedded() reads Embedded as a boolean: answered with the
\* boolean b it succeeds and yields b.
C15_EmbeddedIsBoolean ==
    (/\ pc = "done"
     /\ call.op.type = "Device"
     /\ call.op.name = "embedded"
     /\ reply.tag = "MethodReturn"
     /\ reply.body.sig = "b")
        => result = Ok(reply.body.val)

\* C18: a proxy passed as a parameter of a method is sent as the object path
\* the proxy was constructed with, and as nothing else.
C18_ProxyArgumentIsItsPath ==
    (pc \in {"await", "done"} /\ call.op.style = "method")
        => /\ Len(sent) = 1
           /\ Len(sent[1].args) = Len(call.op.args)
           /\ \A i \in DOMAIN call.op.args :
                 call.op.args[i] \in {"Profile", "Device"}
                     => sent[1].args[i] = Value("o", <<call.given[i].proxy.path>>)

\* add_profile was called with a profile proxy, delete_device with a device
\* proxy
C18_Witness ==
    /\ pc = "await"
    /\ \/ /\ call.op = Device_add_profile
          /\ call.given[2].proxy = Proxy("Profile", "/org/freedesktop/ColorManager/profiles/p1")
       \/ /\ call.op = ColorManager_delete_device
          /\ call.given[1].proxy = Proxy("Device", "/org/freedesktop/ColorManager/devices/d2")

\* C19: an enumeration property (Device Kind, Mode, Scope; Profile Scope;
\* Sensor Mode) whose value at the peer is not a string makes the read
\* return a decode error; the calling task is not aborted.
C19_NonStringIsDecodeError ==
    (/\ pc = "done"
     /\ call.op.style = "property"
     /\ call.op.ret \in {"Kind", "Mode", "Scope", "SensorMode"}
     /\ reply.tag = "MethodReturn"
     /\ reply.body.sig # "s")
        => result.tag = "Err"

\* C17: the default value of Scope is Normal, of device Mode is Unknown and
\* of Relation is Hard.
C17_Defaults ==
    cpc = "defaulted"
        => /\ cty = "Scope" => cout = Ok(Normal)
           /\ cty = "Mode" => cout = Ok(Unknown)
           /\ cty = "Relation" => cout = Ok(Hard)

\* the default of device Mode was taken
C17_Witness ==
    /\ cpc = "defaulted"
    /\ cty = "Mode"
    /\ cout = Ok(Unknown)

-----------------------------------------------------------------------------
(* Two tasks of one program sharing the connection: one waits in a         *)
(* notification operation, the other calls methods and reads properties.   *)

\* the operations of the other task that are pending
Pending == IF waiter.pc = "waiting" THEN {waiter.call} ELSE {}

\* operations behind one lock that is held until the operation returns
AdmitsOneAtATime(pending) == pending = {}

\* whether an operation may start while others are pending: every operation
\* takes &self, inner() hands out a shared reference to the proxy, and the
\* wrappers hold no lock, so it always may
Admits(pending) == TRUE

\* the second task invokes a notification operation and stays in its
\* stream.next().await
WaiterSubscribe ==
    /\ waiter.pc = "idle"
    /\ Admits(IF pc \in {"await", "waiting"} THEN {call} ELSE {})
    /\ \E op \in SignalOps : \E proxy \in Proxies(op.type) :
          waiter' = [pc |-> "waiting",
                     call |-> [op |-> op, proxy |-> proxy, args |-> <<>>, given |-> <<>>],
                     stream |-> receive_signal(emitted, proxy, op.member)]
    /\ UNCHANGED <<codecVars, taskVars, signalVars, built, remoteVars>>

\* the first task invokes a method or a property getter
SharedInvoke == Admits(Pending) /\ Invoke

SharedNext == WaiterSubscribe \/ SharedInvoke \/ ReplyReturn \/ ReplyError \/ Finish

SpecShared == Init /\ [][SharedNext]_vars

-----------------------------------------------------------------------------
(* Claim about the subscriptions a notification leaves behind *)

\* C21: a notification operation that has returned, with success, with
\* "No response" or with a decode error, holds no subscription: between
\* calls no stream is open and none collects signals, and the stream of the
\* next call holds no signal emitted before that call.
C21_SubscriptionReleased ==
    /\ pc \in {"idle", "done"}
          => (~stream.live /\ stream.queue = <<>>)
    /\ pc = "waiting"
          => \A i \in 1..Len(stream.queue) : stream.queue[i] > subscribedAt

\* a notification has returned on the first signal, a further signal its
\* rule matches has been emitted, and no stream holds it
C21_Witness ==
    /\ pc = "done"
    /\ call.op.style = "signal"
    /\ resolvedBy = 1
    /\ Len(emitted) = 2
    /\ Matches(ProxyRule(call.proxy, call.op.member), emitted[2])
    /\ stream = NoSignalStream

====
